---------------------------- MODULE Spec2Model ----------------------------
(***************************************************************************)
(* trim_quals: lowering of the base qualities at the two edges of every    *)
(* aligned read of a Sam/Bam/Cram stream (src/main.rs).                    *)
(*                                                                         *)
(* Four specifications share one set of variables:                         *)
(*   SpecSingle  reduce_single_qual on every pair of u8 values             *)
(*   SpecEdges   reduce_qualities_in_edges on bounded quality arrays       *)
(*   SpecRead    reduce_qualities_in_read on bounded records               *)
(*   Spec        trim_qualities_from_edges_in_bam, the stream pipeline     *)
(***************************************************************************)
EXTENDS Integers, Sequences, FiniteSets, TLC

VARIABLES
    pc,                 \* position of the running function
    num_bases,          \* --num-bases
    qual_reduction,     \* --qual-reduction
    q,                  \* argument of reduce_single_qual
    q_reduced,          \* its return value
    qual,               \* argument of reduce_qualities_in_edges
    leading_softclips,  \* argument of reduce_qualities_in_edges
    trailing_softclips, \* argument of reduce_qualities_in_edges
    edges,              \* outcome of reduce_qualities_in_edges
    category,           \* htsFormat.category of the input
    format,             \* htsFormat.format of the input
    writer_open,        \* the bam::Writer exists (the output is created)
    source,             \* what the reader will deliver, in order
    nread,              \* records read successfully so far
    record,             \* the Record object the loop reuses
    sink,               \* records written so far
    failure             \* why the run aborted, "None" while it has not

vars == <<pc, num_bases, qual_reduction, q, q_reduced, qual, leading_softclips,
          trailing_softclips, edges, category, format, writer_open, source,
          nread, record, sink, failure>>

----------------------------------------------------------------------------
(* Bounds of the model *)

MaxLen == 3         \* longest quality array / base sequence
MaxNumBases == 2    \* largest --num-bases
MaxClip == 2        \* largest soft-clip length
MaxRecords == 2     \* longest input stream
MaxCategory == 2    \* htsFormatCategory values 0..MaxCategory
MaxFormat == 7      \* htsExactFormat values 0..MaxFormat

QualValues == {0, 5, 30}
QualReductions == {0, 5, 40}
BaseCodes == {1, 2}

(* Program constants *)

U8Max == 255
SequenceData == 1
Sam == 3
Bam == 4
Cram == 6

SeqsUpTo(S, n) == UNION {[1..k -> S] : k \in 0..n}

----------------------------------------------------------------------------
(* reduce_single_qual *)

reduce_single_qual_wrapping(v, amount) == (v - amount) % (U8Max + 1)

reduce_single_qual(v, amount) ==
    IF v >= amount THEN v - amount ELSE 0

----------------------------------------------------------------------------
(* reduce_qualities_in_edges.  The running state of the function is the    *)
(* vector being rewritten, whether an index panicked, and a record of what *)
(* the two loops did: how often each position went through the reducer in  *)
(* each loop, the indices handed to qual[..] (0-based) and the trailing    *)
(* offsets that reached the reducer.                                       *)

saturating_sub(a, b) == IF a >= b THEN a - b ELSE 0

EdgesStart(v) ==
    [qual |-> v,
     leading |-> [p \in 1..Len(v) |-> 0],
     trailing |-> [p \in 1..Len(v) |-> 0],
     selected |-> {},
     offsets |-> {},
     panicked |-> FALSE]

\* qual[pos] = reduce_single_qual(qual[pos], qual_reduction), bounds-checked
ReduceAt(st, pos, amount, pass) ==
    IF pos >= Len(st.qual)
    THEN [st EXCEPT !.panicked = TRUE, !.selected = @ \cup {pos}]
    ELSE IF pass = "leading"
         THEN [st EXCEPT !.qual[pos + 1] = reduce_single_qual(@, amount),
                         !.leading[pos + 1] = @ + 1,
                         !.selected = @ \cup {pos}]
         ELSE [st EXCEPT !.qual[pos + 1] = reduce_single_qual(@, amount),
                         !.trailing[pos + 1] = @ + 1,
                         !.selected = @ \cup {pos}]

RECURSIVE LeadingLoop(_, _, _, _)
LeadingLoop(st, pos, num_bases_with_clip, amount) ==
    IF pos >= num_bases_with_clip \/ st.panicked THEN st
    ELSE IF pos >= Len(st.qual)
         THEN LeadingLoop(st, pos + 1, num_bases_with_clip, amount)
         ELSE LeadingLoop(ReduceAt(st, pos, amount, "leading"), pos + 1,
                          num_bases_with_clip, amount)

TrailingStep(st, pos, nb, amount) ==
    LET pos_from_end == saturating_sub(Len(st.qual), pos + 1) IN
    IF pos_from_end < nb THEN st
    ELSE [ReduceAt(st, pos_from_end, amount, "trailing")
             EXCEPT !.offsets = @ \cup {pos}]

RECURSIVE TrailingLoop(_, _, _, _, _)
TrailingLoop(st, pos, num_bases_with_clip, nb, amount) ==
    IF pos >= num_bases_with_clip \/ st.panicked THEN st
    ELSE TrailingLoop(TrailingStep(st, pos, nb, amount), pos + 1,
                      num_bases_with_clip, nb, amount)

reduce_qualities_in_edges(v, nb, amount, lead, trail) ==
    TrailingLoop(LeadingLoop(EdgesStart(v), 0, nb + lead, amount),
                 0, nb + trail, nb, amount)

----------------------------------------------------------------------------
(* Records.  A record holds its name, its CIGAR (a sequence of operations),*)
(* its bases as the 4-bit codes of the BAM encoding and its qualities.     *)

CigarOp(op, len) == [op |-> op, len |-> len]

Rec(qname, cigar, seq, quals) ==
    [qname |-> qname, cigar |-> cigar, seq |-> seq, qual |-> quals]

EmptyRecord == Rec("", <<>>, <<>>, <<>>)

\* cigar_view.leading_softclips(): the length of a soft clip that opens the CIGAR
leading_softclips_of(cigar) ==
    IF Len(cigar) > 0 /\ cigar[1].op = "S" THEN cigar[1].len ELSE 0

\* cigar_view.trailing_softclips(): the length of a soft clip that closes it
trailing_softclips_of(cigar) ==
    IF Len(cigar) > 0 /\ cigar[Len(cigar)].op = "S" THEN cigar[Len(cigar)].len ELSE 0

DecodeBase ==
    <<"=", "A", "C", "M", "G", "R", "S", "V", "T", "W", "Y", "H", "K", "D", "B", "N">>

\* record.seq().as_bytes(): the 4-bit codes decoded to letters
as_bytes(seq) == [i \in 1..Len(seq) |-> DecodeBase[seq[i] + 1]]

encode_base(letter) ==
    IF \E i \in 1..Len(DecodeBase) : DecodeBase[i] = letter
    THEN (CHOOSE i \in 1..Len(DecodeBase) : DecodeBase[i] = letter) - 1
    ELSE Len(DecodeBase) - 1

\* record.set(qname, Some(cigar), seq, qual): every field is supplied again,
\* the letters are packed back into 4-bit codes
set(qname, cigar, bytes, quals) ==
    Rec(qname, cigar, [i \in 1..Len(bytes) |-> encode_base(bytes[i])], quals)

reduce_qualities_in_read_no_cigar(rec, nb, amount) ==
    LET e == reduce_qualities_in_edges(rec.qual, nb, amount,
                                       leading_softclips_of(rec.cigar),
                                       trailing_softclips_of(rec.cigar))
    IN  [panicked |-> e.panicked,
         record |-> IF e.panicked THEN rec
                    ELSE set(rec.qname, <<>>, as_bytes(rec.seq), e.qual)]

reduce_qualities_in_read(rec, nb, amount) ==
    LET quals == rec.qual
        cigar_view == rec.cigar
        lead == leading_softclips_of(cigar_view)
        trail == trailing_softclips_of(cigar_view)
        e == reduce_qualities_in_edges(quals, nb, amount, lead, trail)
        cigar == cigar_view
        seq == as_bytes(rec.seq)
        qname == rec.qname
    IN  [panicked |-> e.panicked,
         record |-> IF e.panicked THEN rec ELSE set(qname, cigar, seq, e.qual)]

get_file_format(hst_format) ==
    IF hst_format = Sam THEN "Sam"
    ELSE IF hst_format = Bam THEN "Bam"
    ELSE IF hst_format = Cram THEN "Cram"
    ELSE "Err"

----------------------------------------------------------------------------
(* Input domains *)

ClipOps == {<<>>} \cup {<<CigarOp("S", n)>> : n \in 1..MaxClip}
MatchOps == {<<>>} \cup {<<CigarOp("M", n)>> : n \in 1..MaxLen}
Cigars == {l \o m \o t : l \in ClipOps, m \in MatchOps, t \in ClipOps}

RECURSIVE QueryLen(_)
QueryLen(cigar) ==
    IF cigar = <<>> THEN 0 ELSE Head(cigar).len + QueryLen(Tail(cigar))

\* A record as the reader delivers it: one quality per base; the CIGAR spans
\* the bases unless the read is unmapped (no CIGAR) or stored without its
\* bases (SEQ "*").
Records ==
    {r \in [qname : {"r1"}, cigar : Cigars,
            seq : SeqsUpTo(BaseCodes, MaxLen), qual : SeqsUpTo(QualValues, MaxLen)] :
        /\ Len(r.qual) = Len(r.seq)
        /\ \/ r.cigar = <<>>
           \/ Len(r.seq) = 0
           \/ QueryLen(r.cigar) = Len(r.seq)}

StreamRecords ==
    {Rec("r1", <<CigarOp("S", 1), CigarOp("M", 2)>>, <<1, 2, 1>>, <<30, 30, 5>>),
     Rec("r2", <<CigarOp("S", 1), CigarOp("M", 1), CigarOp("S", 1)>>,
         <<2, 2, 1>>, <<30, 30, 30>>),
     Rec("r3", <<CigarOp("M", 2), CigarOp("S", 1)>>, <<>>, <<>>)}

Parsed(r) == [parse |-> "ok", rec |-> r]
Malformed == [parse |-> "error"]
StreamItems == {Parsed(r) : r \in StreamRecords} \cup {Malformed}

----------------------------------------------------------------------------
(* Variable groups *)

config == <<num_bases, qual_reduction>>
singleVars == <<q, q_reduced>>
edgesVars == <<qual, leading_softclips, trailing_softclips, edges>>
streamVars == <<category, format, writer_open, source, nread, record, sink, failure>>

SingleIdle == q = 0 /\ q_reduced = 0
EdgesIdle ==
    /\ qual = <<>>
    /\ leading_softclips = 0
    /\ trailing_softclips = 0
    /\ edges = EdgesStart(<<>>)
StreamIdle ==
    /\ category = SequenceData
    /\ format = Bam
    /\ writer_open = FALSE
    /\ source = <<>>
    /\ nread = 0
    /\ record = EmptyRecord
    /\ sink = <<>>
    /\ failure = "None"

----------------------------------------------------------------------------
(* SpecSingle: reduce_single_qual on every pair of u8 values *)

InitSingle ==
    /\ pc = "call"
    /\ num_bases = 0
    /\ qual_reduction \in 0..U8Max
    /\ q \in 0..U8Max
    /\ q_reduced = 0
    /\ EdgesIdle
    /\ StreamIdle

CallSingle ==
    /\ pc = "call"
    /\ q_reduced' = reduce_single_qual(q, qual_reduction)
    /\ pc' = "returned"
    /\ UNCHANGED <<config, q, edgesVars, streamVars>>

SpecSingle == InitSingle /\ [][CallSingle]_vars

----------------------------------------------------------------------------
(* SpecEdges: reduce_qualities_in_edges on bounded inputs *)

InitEdges ==
    /\ pc = "call"
    /\ num_bases \in 0..MaxNumBases
    /\ qual_reduction \in QualReductions
    /\ qual \in SeqsUpTo(QualValues, MaxLen)
    /\ leading_softclips \in 0..MaxClip
    /\ trailing_softclips \in 0..MaxClip
    /\ edges = EdgesStart(qual)
    /\ SingleIdle
    /\ StreamIdle

CallEdges ==
    /\ pc = "call"
    /\ edges' = reduce_qualities_in_edges(qual, num_bases, qual_reduction,
                                          leading_softclips, trailing_softclips)
    /\ pc' = IF edges'.panicked THEN "panicked" ELSE "returned"
    /\ UNCHANGED <<config, singleVars, qual, leading_softclips,
                   trailing_softclips, streamVars>>

SpecEdges == InitEdges /\ [][CallEdges]_vars

----------------------------------------------------------------------------
(* SpecRead: reduce_qualities_in_read on bounded records; source keeps the *)
(* record as it was before the call.                                       *)

InitRead ==
    /\ pc = "call"
    /\ num_bases \in 0..MaxNumBases
    /\ qual_reduction \in QualReductions
    /\ record \in Records
    /\ source = <<Parsed(record)>>
    /\ category = SequenceData
    /\ format = Bam
    /\ writer_open = FALSE
    /\ nread = 1
    /\ sink = <<>>
    /\ failure = "None"
    /\ SingleIdle
    /\ EdgesIdle

CallRead ==
    /\ pc = "call"
    /\ LET r == reduce_qualities_in_read(record, num_bases, qual_reduction) IN
        /\ record' = r.record
        /\ pc' = IF r.panicked THEN "panicked" ELSE "returned"
        /\ failure' = IF r.panicked THEN "Panic" ELSE failure
    /\ UNCHANGED <<config, singleVars, edgesVars, category, format,
                   writer_open, source, nread, sink>>

SpecRead == InitRead /\ [][CallRead]_vars

----------------------------------------------------------------------------
(* Spec: trim_qualities_from_edges_in_bam.  pc is the position in the      *)
(* function; the run is Idle before the loop, Streaming inside it, and     *)
(* ends in Done (Ok returned) or Failed (Err returned, or a panic).        *)

Idle == pc \in {"open_reader", "format_gate", "open_writer"}
Streaming == pc \in {"read", "adjust", "write"}

Init ==
    /\ pc = "open_reader"
    /\ num_bases \in 0..MaxNumBases
    /\ qual_reduction \in QualReductions
    /\ category \in 0..MaxCategory
    /\ format \in 0..MaxFormat
    /\ source \in SeqsUpTo(StreamItems, MaxRecords)
    /\ writer_open = FALSE
    /\ nread = 0
    /\ record = EmptyRecord
    /\ sink = <<>>
    /\ failure = "None"
    /\ SingleIdle
    /\ EdgesIdle

Fail(kind) ==
    /\ pc' = "Failed"
    /\ failure' = kind

\* bam::Reader::from_stdin()? / from_path(..)?
OpenReader ==
    /\ pc = "open_reader"
    /\ \/ pc' = "format_gate" /\ UNCHANGED failure
       \/ Fail("IOFailure")
    /\ UNCHANGED <<config, singleVars, edgesVars, category, format,
                   writer_open, source, nread, record, sink>>

FormatGate_NoCategoryCheck ==
    /\ pc = "format_gate"
    /\ IF get_file_format(format) = "Err"
       THEN Fail("UnsupportedContainer")
       ELSE pc' = "open_writer" /\ UNCHANGED failure
    /\ UNCHANGED <<config, singleVars, edgesVars, category, format,
                   writer_open, source, nread, record, sink>>

\* the category test, then get_file_format(..)?
FormatGate ==
    /\ pc = "format_gate"
    /\ IF category # SequenceData
       THEN Fail("UnsupportedContainer")
       ELSE IF get_file_format(format) = "Err"
            THEN Fail("UnsupportedContainer")
            ELSE pc' = "open_writer" /\ UNCHANGED failure
    /\ UNCHANGED <<config, singleVars, edgesVars, category, format,
                   writer_open, source, nread, record, sink>>

\* bam::Writer::from_stdout(..)? / from_path(..)?, then Record::new()
OpenWriter ==
    /\ pc = "open_writer"
    /\ \/ /\ writer_open' = TRUE
          /\ record' = EmptyRecord
          /\ pc' = "read"
          /\ UNCHANGED failure
       \/ /\ Fail("IOFailure")
          /\ UNCHANGED <<writer_open, record>>
    /\ UNCHANGED <<config, singleVars, edgesVars, category, format,
                   source, nread, sink>>

ReadRecord_ErrorEndsStream ==
    /\ pc = "read"
    /\ IF nread >= Len(source) \/ source[nread + 1].parse = "error"
       THEN /\ pc' = "Done"
            /\ UNCHANGED <<record, nread, failure>>
       ELSE /\ record' = source[nread + 1].rec
            /\ nread' = nread + 1
            /\ pc' = "adjust"
            /\ UNCHANGED failure
    /\ UNCHANGED <<config, singleVars, edgesVars, category, format,
                   writer_open, source, sink>>

\* while let Some(r) = reader.read(&mut record) { r.expect(..); ..
ReadRecord ==
    /\ pc = "read"
    /\ IF nread >= Len(source)
       THEN /\ pc' = "Done"
            /\ UNCHANGED <<record, nread, failure>>
       ELSE IF source[nread + 1].parse = "error"
            THEN /\ Fail("MalformedRecord")
                 /\ UNCHANGED <<record, nread>>
            ELSE /\ record' = source[nread + 1].rec
                 /\ nread' = nread + 1
                 /\ pc' = "adjust"
                 /\ UNCHANGED failure
    /\ UNCHANGED <<config, singleVars, edgesVars, category, format,
                   writer_open, source, sink>>

\* reduce_qualities_in_read(&mut record, num_bases, qual_reduction)
Adjust ==
    /\ pc = "adjust"
    /\ LET r == reduce_qualities_in_read(record, num_bases, qual_reduction) IN
        IF r.panicked
        THEN Fail("Panic") /\ UNCHANGED record
        ELSE pc' = "write" /\ record' = r.record /\ UNCHANGED failure
    /\ UNCHANGED <<config, singleVars, edgesVars, category, format,
                   writer_open, source, nread, sink>>

Write_Dropped ==
    /\ pc = "write"
    /\ \/ /\ pc' = "read"
          /\ UNCHANGED <<sink, failure>>
       \/ Fail("IOFailure") /\ UNCHANGED sink
    /\ UNCHANGED <<config, singleVars, edgesVars, category, format,
                   writer_open, source, nread, record>>

\* writer.write(&record)?
Write ==
    /\ pc = "write"
    /\ \/ /\ sink' = Append(sink, record)
          /\ pc' = "read"
          /\ UNCHANGED failure
       \/ Fail("IOFailure") /\ UNCHANGED sink
    /\ UNCHANGED <<config, singleVars, edgesVars, category, format,
                   writer_open, source, nread, record>>

Next ==
    \/ OpenReader
    \/ FormatGate
    \/ OpenWriter
    \/ ReadRecord
    \/ Adjust
    \/ Write

Spec == Init /\ [][Next]_vars

----------------------------------------------------------------------------
(* Properties of reduce_single_qual (SpecSingle)                           *)

\* C3: for all u8 value and amount, reduce_single_qual returns value - amount
\* when value >= amount and 0 otherwise; the result lies in [0, value], is 0
\* whenever amount >= value, and never wraps below zero.
C3_Saturation ==
    pc = "returned" =>
        /\ q >= qual_reduction => q_reduced + qual_reduction = q
        /\ q < qual_reduction => q_reduced = 0
        /\ q_reduced \in 0..q
        /\ qual_reduction >= q => q_reduced = 0

C3_Witness ==
    /\ pc = "returned"
    /\ q > 0
    /\ qual_reduction > q
    /\ q_reduced = 0

----------------------------------------------------------------------------
(* Properties of reduce_qualities_in_edges (SpecEdges).  Positions are     *)
(* 0-based, as in the source; qual[p + 1] is the value at position p.      *)

Positions == 0..(Len(qual) - 1)

Times(p) == edges.leading[p + 1] + edges.trailing[p + 1]

LeadingWindow ==
    {p \in Positions : p < num_bases + leading_softclips}

TrailingWindow ==
    {p \in Positions :
        /\ p >= num_bases
        /\ \E k \in 0..(num_bases + trailing_softclips - 1) :
              k < Len(qual) /\ p = Len(qual) - 1 - k}

\* C1: for every quality array (the empty one included) and every numBases,
\* leadingClip and trailingClip, reduce_qualities_in_edges touches only
\* indices in [0, seqLen) and returns normally; on the empty array it selects
\* no position and returns the empty array.
C1_BoundarySafety ==
    /\ pc # "panicked"
    /\ pc = "returned" => edges.selected \subseteq Positions
    /\ (pc = "returned" /\ qual = <<>>) =>
           (edges.qual = <<>> /\ edges.selected = {})

\* C2: every position of the result holds either its input value or that
\* value passed through reduce_single_qual exactly once; no position goes
\* through the reducer more than once.
C2_OneTimeOnly ==
    pc = "returned" =>
        \A p \in Positions :
            /\ Times(p) <= 1
            /\ edges.qual[p + 1] \in
                   {qual[p + 1], reduce_single_qual(qual[p + 1], qual_reduction)}

\* C4: the result is as long as the input and the selected positions are
\* exactly the leading window united with the trailing window: each of them
\* goes through the reducer, every other position keeps its value, and the
\* trailing pass modifies no position below numBases.
C4_SelectedUnion ==
    pc # "call" =>
        /\ edges.selected = LeadingWindow \cup TrailingWindow
        /\ pc = "returned" =>
              /\ Len(edges.qual) = Len(qual)
              /\ \A p \in Positions :
                    /\ p \in LeadingWindow \cup TrailingWindow => Times(p) >= 1
                    /\ p \notin LeadingWindow \cup TrailingWindow =>
                           (Times(p) = 0 /\ edges.qual[p + 1] = qual[p + 1])
                    /\ p < num_bases => edges.trailing[p + 1] = 0

\* C5: with qualReduction = 0 the function returns an array equal to its
\* input, for every quality array and any numBases and clip lengths.
C5_NoOpAtZero ==
    (pc # "call" /\ qual_reduction = 0) =>
        (pc = "returned" /\ edges.qual = qual)

\* C10: a position that goes through the reducer more than once lies in
\* [numBases, numBases + leadingClip) and is reduced exactly twice, once by
\* each pass; trailing offsets k >= seqLen are skipped and reduce nothing.
C10_DoubleReductionZone ==
    pc = "returned" =>
        /\ \A p \in Positions :
              Times(p) > 1 =>
                  /\ p >= num_bases
                  /\ p < num_bases + leading_softclips
                  /\ edges.leading[p + 1] = 1
                  /\ edges.trailing[p + 1] = 1
        /\ \A k \in edges.offsets : k < Len(qual)

----------------------------------------------------------------------------
(* Properties of reduce_qualities_in_read (SpecRead)                       *)

\* C8: reduce_qualities_in_read changes only the quality array: the name,
\* the CIGAR and the base sequence of the record are what they were before
\* the call, and the quality array written back is as long as the sequence.
C8_FrameEffect ==
    pc # "call" =>
        /\ record.qname = source[1].rec.qname
        /\ record.cigar = source[1].rec.cigar
        /\ record.seq = source[1].rec.seq
        /\ Len(record.qual) = Len(record.seq)

C8_Witness ==
    /\ pc = "returned"
    /\ record.qual # source[1].rec.qual
    /\ Len(record.cigar) > 1
    /\ Len(record.seq) > 1

----------------------------------------------------------------------------
(* Properties of the pipeline (Spec)                                       *)

Adjusted(item) ==
    reduce_qualities_in_read(item.rec, num_bases, qual_reduction).record

SinkIsImageOfPrefix ==
    \A i \in 1..Len(sink) :
        /\ i <= Len(source)
        /\ source[i].parse = "ok"
        /\ sink[i] = Adjusted(source[i])

\* C6: the records written are, in input order, the adjusted image of a
\* prefix of the records read; a record is written before the next one is
\* read, so at most one record read is not yet written; at Done every input
\* record has been written exactly once.
C6_OneInOneOut ==
    /\ SinkIsImageOfPrefix
    /\ Len(sink) <= nread
    /\ nread <= Len(sink) + 1
    /\ nread <= Len(source)
    /\ pc = "read" => nread = Len(sink)
    /\ pc = "Done" => Len(sink) = Len(source)

C6_Witness ==
    /\ pc = "Done"
    /\ Len(sink) >= 2
    /\ sink[1] # source[1].rec
    /\ sink[1] # sink[2]

NextIsMalformed ==
    /\ pc = "read"
    /\ nread < Len(source)
    /\ source[nread + 1].parse = "error"

\* C7: a malformed record is fatal and never skipped: when the reader
\* reports record k as unparseable the run goes from Streaming to Failed and
\* never to Done; nothing is read, adjusted or written afterwards and the
\* sink holds exactly the adjusted records 1..k-1.
C7_MalformedFatal ==
    /\ [](failure = "MalformedRecord" =>
             /\ pc = "Failed"
             /\ nread < Len(source)
             /\ source[nread + 1].parse = "error"
             /\ Len(sink) = nread
             /\ SinkIsImageOfPrefix)
    /\ [][NextIsMalformed =>
             /\ pc' = "Failed"
             /\ failure' = "MalformedRecord"
             /\ UNCHANGED <<sink, nread, record>>]_vars
    /\ [][failure = "MalformedRecord" => UNCHANGED <<pc, sink, nread, record>>]_vars

C7_Witness ==
    /\ failure = "MalformedRecord"
    /\ pc = "Failed"
    /\ Len(sink) >= 1
    /\ Len(source) > nread

GateAccepts ==
    /\ category = SequenceData
    /\ format \in {Sam, Bam, Cram}

\* C9: the format gate precedes all processing: when the category is not
\* sequence data, or the exact format is none of Sam, Bam and Cram, the run
\* ends with an error before the sink is opened and before any record is
\* read or written; records are read and written only after both checks pass.
C9_FormatGate ==
    /\ [](~GateAccepts =>
             /\ ~writer_open
             /\ nread = 0
             /\ sink = <<>>
             /\ record = EmptyRecord
             /\ pc \in {"open_reader", "format_gate", "Failed"})
    /\ []((Streaming \/ pc = "Done") => (GateAccepts /\ writer_open))
    /\ [][(pc = "format_gate" /\ ~GateAccepts) =>
             (pc' = "Failed" /\ failure' = "UnsupportedContainer")]_vars

C9_Witness ==
    /\ pc = "Failed"
    /\ failure = "UnsupportedContainer"
    /\ category = SequenceData
    /\ format \notin {Sam, Bam, Cram}
    /\ source # <<>>

============================================================================
